---- MODULE Spec2Model ----
(***************************************************************************)
(* Frame-sequence action tracking of the health optimizer backend:         *)
(* backend/agent.py (AgentState, ProtocolManager, interpret_image),        *)
(* backend/api.py (the HTTP server) and backend/main.py (the tool server). *)
(*                                                                         *)
(* Each server is its own process with its own agent_state, frame_buffer   *)
(* and protocol_manager; the variable server says which one runs.          *)
(***************************************************************************)
EXTENDS Integers, Sequences, FiniteSets, TLC

(* ------------------------------------------------------------------ *)
(* Bounds of the model                                                  *)
(* ------------------------------------------------------------------ *)

\* Frames submitted in one behaviour (the arrival counter nframes is capped).
MaxFrames == 3

\* Ledger entries committed in one behaviour (id_counter is capped).
MaxItems == 2

\* Frames submitted in one behaviour of the long stream: more than the
\* frame buffer holds.
MaxStreamFrames == 22

(* ------------------------------------------------------------------ *)
(* Program constants                                                    *)
(* ------------------------------------------------------------------ *)

MAX_BUFFER_FRAMES == 20

\* ActionProgress enum values.
STARTED == "started"
IN_PROGRESS == "in progress"
FINISHED == "finished"

(* ------------------------------------------------------------------ *)
(* JSON / Python values: a pair <<tag, text>>.                          *)
(*   "absent": the key is not in the dict                               *)
(*   "none"  : None / JSON null                                         *)
(*   "str"   : a string                                                 *)
(*   "list"  : a JSON list (a truthy value that is not a string)        *)
(*   "dict"  : a JSON object                                            *)
(* ------------------------------------------------------------------ *)

Absent == <<"absent", "">>
None == <<"none", "">>
Str(s) == <<"str", s>>
NonStr == <<"list", "pill">>
\* details = {"quantity": "1 pill"}
DetailsObj == <<"dict", "1 pill">>
EmptyDict == <<"dict", "">>

IsStr(v) == v[1] = "str"
IsDict(v) == v[1] = "dict"

\* Python truthiness of a value.
Truthy(v) ==
    \/ v[1] = "str" /\ v[2] # ""
    \/ v[1] = "list"
    \/ v[1] = "dict" /\ v[2] # ""

\* a or b
Or(a, b) == IF Truthy(a) THEN a ELSE b

\* d.get(key, default), v being what d holds under key.
Get(v, default) == IF v = Absent THEN default ELSE v

\* details.get("quantity") on a dict.
Quantity(details) == IF details[2] = "" THEN None ELSE Str(details[2])

(* ------------------------------------------------------------------ *)
(* Classifier replies (the text llm.invoke returns, after               *)
(* _coerce_content), by what json.loads makes of it once the code       *)
(* fence is stripped:                                                   *)
(*   "nonjson"  : json.loads raises JSONDecodeError                     *)
(*   "nonobject": valid JSON that is not an object (a list, a number)   *)
(*   "object"   : a JSON object with the fields below                   *)
(* ------------------------------------------------------------------ *)

Statuses ==
    { Absent, Str("started"), Str("in progress"), Str("finished"),
      Str("not detected"), Str("paused") }

\* The "action" field: missing, empty, a name, or not a string.
Labels == { Absent, Str(""), Str("walk"), NonStr }

\* (item_name, category) of a finished reply: the item is not named, it is
\* named with its category, or the name is not a string.
ItemFields ==
    { <<Absent, Absent>>, <<Str("D3"), Str("supplement")>>,
      <<NonStr, Absent>> }

DetailsVals == { Absent, None, DetailsObj }

NonJsonReply ==
    [kind |-> "nonjson", status |-> Absent, action |-> Absent,
     item_name |-> Absent, category |-> Absent, details |-> Absent]

NonObjectReply ==
    [kind |-> "nonobject", status |-> Absent, action |-> Absent,
     item_name |-> Absent, category |-> Absent, details |-> Absent]

\* Item fields are only read for a finished reply (agent.py:345,
\* api.py:161-163); in the other replies they are left out.
UnfinishedReplies ==
    { [kind |-> "object", status |-> s, action |-> a, item_name |-> Absent,
       category |-> Absent, details |-> Absent] :
        s \in Statuses \ {Str("finished")}, a \in Labels }

FinishedReplies ==
    { [kind |-> "object", status |-> Str("finished"), action |-> a,
       item_name |-> i[1], category |-> i[2], details |-> d] :
        a \in Labels, i \in ItemFields, d \in DetailsVals }

ObjectReplies == UnfinishedReplies \cup FinishedReplies

Replies == {NonJsonReply, NonObjectReply} \cup ObjectReplies

\* No reply: the service was not reached or raised.
NoReply ==
    [kind |-> "none", status |-> Absent, action |-> Absent,
     item_name |-> Absent, category |-> Absent, details |-> Absent]

(* ------------------------------------------------------------------ *)
(* State                                                                *)
(* ------------------------------------------------------------------ *)

VARIABLES
    server,               \* "api" (backend/api.py) or "mcp" (backend/main.py)
    current_action,       \* AgentState.current_action
    action_progress,      \* AgentState.action_progress
    conversation_memory,  \* AgentState.conversation_memory
    protocol_items,       \* ProtocolManager.protocol_items
    id_counter,           \* ProtocolManager._id_counter
    frame_buffer,         \* the server's frame_buffer
    nframes,              \* frames submitted so far; frame k is the k-th one
    run,                  \* history: "open" while the frames since the last
                          \* started reply were all in progress replies
    last,                 \* the request just handled and its response
    created,              \* history: ledger entries created since the
                          \* process started, cleared ones included
    req,                  \* requests in flight at once: where each one is
                          \* in its handler, and its local variables
    start                 \* the state the requests in flight started from

vars ==
    << server, current_action, action_progress, conversation_memory,
       protocol_items, id_counter, frame_buffer, nframes, run, last,
       created, req, start >>

\* The AgentState object.
AgentOf(ca, ap, mem) ==
    [current_action |-> ca, action_progress |-> ap,
     conversation_memory |-> mem]

\* The ProtocolManager object (completed_actions, appended in step with
\* protocol_items and never read, is left out).
ManagerOf(items, idc) == [protocol_items |-> items, id_counter |-> idc]

(* ------------------------------------------------------------------ *)
(* AgentState                                                           *)
(* ------------------------------------------------------------------ *)

\* Mutant of push_update: an empty action leaves current_action as it is.
push_update_KeepsOnEmpty(ag, action, progress) ==
    [ag EXCEPT !.current_action = IF action = Str("") THEN @ ELSE action,
               !.action_progress = progress]

push_update(ag, action, progress) ==
    [ag EXCEPT !.current_action = action, !.action_progress = progress]

\* Mutant of clear_memory: the list is left as it is.
clear_memory_Noop(ag) == ag

clear_memory(ag) == [ag EXCEPT !.conversation_memory = <<>>]

(* ------------------------------------------------------------------ *)
(* ProtocolManager                                                      *)
(* ------------------------------------------------------------------ *)

\* name=detection.get("item_name") or detection.get("action", "Unknown action")
ItemNameOf(detection) ==
    Or(Get(detection.item_name, None),
       Get(detection.action, Str("Unknown action")))

\* category=detection.get("category", "wellness")
CategoryOf(detection) == Get(detection.category, Str("wellness"))

\* The ProtocolItem built for a detection (taken_at, the wall clock, and
\* the description are left out; dosage and brand are read as quantity is).
ProtocolItemOf(idc, detection) ==
    [id |-> <<"action_", idc>>,
     name |-> ItemNameOf(detection),
     category |-> CategoryOf(detection),
     status |-> "taken",
     details |-> [quantity |-> Quantity(Get(detection.details, EmptyDict))]]

\* Mutant of add_completed_action: the new entry is put in front.
add_completed_action_Prepend(pm, detection) ==
    IF ~IsDict(Get(detection.details, EmptyDict))
    THEN [pm |-> pm, exc |-> "AttributeError"]
    ELSE IF ~IsStr(ItemNameOf(detection)) \/ ~IsStr(CategoryOf(detection))
    THEN [pm |-> pm, exc |-> "ValidationError"]
    ELSE [pm |-> [protocol_items |->
                      << ProtocolItemOf(pm.id_counter, detection) >>
                        \o pm.protocol_items,
                  id_counter |-> pm.id_counter + 1],
          exc |-> "none"]

\* Mutant of add_completed_action: the counter is not advanced.
add_completed_action_SameId(pm, detection) ==
    IF ~IsDict(Get(detection.details, EmptyDict))
    THEN [pm |-> pm, exc |-> "AttributeError"]
    ELSE IF ~IsStr(ItemNameOf(detection)) \/ ~IsStr(CategoryOf(detection))
    THEN [pm |-> pm, exc |-> "ValidationError"]
    ELSE [pm |-> [protocol_items |->
                      Append(pm.protocol_items,
                             ProtocolItemOf(pm.id_counter, detection)),
                  id_counter |-> pm.id_counter],
          exc |-> "none"]

\* add_completed_action: the manager after the call and the exception
\* raised ("none" when it returns).  The keyword arguments are evaluated
\* before ProtocolItem validates them: details.get on a non-dict raises
\* AttributeError, then a name or category that is not a string raises
\* pydantic's ValidationError.
add_completed_action(pm, detection) ==
    IF ~IsDict(Get(detection.details, EmptyDict))
    THEN [pm |-> pm, exc |-> "AttributeError"]
    ELSE IF ~IsStr(ItemNameOf(detection)) \/ ~IsStr(CategoryOf(detection))
    THEN [pm |-> pm, exc |-> "ValidationError"]
    ELSE [pm |-> [protocol_items |->
                      Append(pm.protocol_items,
                             ProtocolItemOf(pm.id_counter, detection)),
                  id_counter |-> pm.id_counter + 1],
          exc |-> "none"]

\* Mutant of clear: the entries go, the counter stays.
clear_KeepsCounter(pm) == [protocol_items |-> <<>>, id_counter |-> pm.id_counter]

\* clear()
clear(pm) == [protocol_items |-> <<>>, id_counter |-> 1]

\* get_summary()["total_actions"]
total_actions(pm) == Len(pm.protocol_items)

\* The categories that key get_summary()["by_category"].
CategoriesOf(pm) ==
    { pm.protocol_items[i].category : i \in 1..Len(pm.protocol_items) }

\* get_summary()["by_category"][category]: the names of the entries of the
\* category, in ledger order.
NamesIn(pm, category) ==
    LET sel == SelectSeq(pm.protocol_items,
                         LAMBDA item : item.category = category)
    IN  [i \in 1..Len(sel) |-> sel[i].name]

\* get_summary(): the three keys the dictionary has.
get_summary(pm) ==
    [total_actions |-> total_actions(pm),
     by_category |-> [c \in CategoriesOf(pm) |-> NamesIn(pm, c)],
     items |-> pm.protocol_items]

(* ------------------------------------------------------------------ *)
(* interpret_image                                                      *)
(* ------------------------------------------------------------------ *)

HumanMessage(image_bytes) == [role |-> "human", frame |-> image_bytes]

\* AIMessage(content=result): the raw reply to the frame, named by the frame.
AIMessage(image_bytes) == [role |-> "ai", frame |-> image_bytes]

\* Mutant of save_exchange: the reply is appended before the frame.
save_exchange_ReplyFirst(ag, image_bytes) ==
    [ag EXCEPT !.conversation_memory =
        @ \o << AIMessage(image_bytes), HumanMessage(image_bytes) >>]

\* agent.py:329-330
save_exchange(ag, image_bytes) ==
    [ag EXCEPT !.conversation_memory =
        @ \o << HumanMessage(image_bytes), AIMessage(image_bytes) >>]

\* Mutant of StatusOf: a reply without a status counts as finished.
StatusOf_DefaultFinished(parsed) == Get(parsed.status, Str("finished"))

\* status = parsed.get("status", "not detected")
StatusOf(parsed) == Get(parsed.status, Str("not detected"))

\* detected_action = parsed.get("action", "")
DetectedAction(parsed) == Get(parsed.action, Str(""))

\* The action interpret_image passes to push_update for a reply with one
\* of the three statuses, ca being agent_state.current_action
\* (agent.py:338-343).
PushedLabel(parsed, ca) ==
    IF StatusOf(parsed) = Str("started")
    THEN DetectedAction(parsed)
    ELSE Or(DetectedAction(parsed), ca)

\* ... and the progress it passes.
PushedStage(parsed) ==
    IF StatusOf(parsed) = Str("started") THEN STARTED
    ELSE IF StatusOf(parsed) = Str("in progress") THEN IN_PROGRESS
    ELSE FINISHED

\* The finished branch (agent.py:342-346): push_update, then
\* add_completed_action, then clear_memory.  An AttributeError of
\* add_completed_action is swallowed by the except clause (the memory is
\* not cleared); a ValidationError leaves interpret_image.
on_finished(ag, pm, parsed) ==
    LET ag2 == push_update(ag, Or(DetectedAction(parsed), ag.current_action),
                           FINISHED)
        rec == add_completed_action(pm, parsed)
    IN  IF rec.exc = "none"
        THEN [ag |-> clear_memory(ag2), pm |-> rec.pm, exc |-> "none"]
        ELSE IF rec.exc = "AttributeError"
        THEN [ag |-> ag2, pm |-> pm, exc |-> "none"]
        ELSE [ag |-> ag2, pm |-> pm, exc |-> rec.exc]

\* Mutant of on_parse_failure: the tracking state is reset.
on_parse_failure_Reset(ag, pm) ==
    [ag |-> push_update(ag, Str(""), FINISHED), pm |-> pm, exc |-> "none"]

\* except (json.JSONDecodeError, AttributeError): pass
on_parse_failure(ag, pm) == [ag |-> ag, pm |-> pm, exc |-> "none"]

\* The try block of interpret_image (agent.py:333-349) on the reply.
on_reply(ag, pm, result) ==
    IF result.kind # "object"
    THEN \* JSONDecodeError, or AttributeError of parsed.get
         on_parse_failure(ag, pm)
    ELSE IF StatusOf(result) = Str("started")
    THEN [ag |-> push_update(ag, DetectedAction(result), STARTED),
          pm |-> pm, exc |-> "none"]
    ELSE IF StatusOf(result) = Str("in progress")
    THEN [ag |-> push_update(ag,
                     Or(DetectedAction(result), ag.current_action),
                     IN_PROGRESS),
          pm |-> pm, exc |-> "none"]
    ELSE IF StatusOf(result) = Str("finished")
    THEN on_finished(ag, pm, result)
    ELSE [ag |-> ag, pm |-> pm, exc |-> "none"]

\* Mutant of interpret_image: the exchange is saved before llm.invoke.
interpret_image_SaveFirst(ag, pm, image_bytes, svc, result) ==
    IF svc # "ok"
    THEN [ag |-> save_exchange(ag, image_bytes), pm |-> pm,
          exc |-> "ServiceError"]
    ELSE on_reply(save_exchange(ag, image_bytes), pm, result)

\* interpret_image: llm.invoke either raises (svc = "down": nothing was
\* touched yet) or returns result; the exchange is saved, then the reply
\* is handled.
interpret_image(ag, pm, image_bytes, svc, result) ==
    IF svc # "ok"
    THEN [ag |-> ag, pm |-> pm, exc |-> "ServiceError"]
    ELSE on_reply(save_exchange(ag, image_bytes), pm, result)

(* ------------------------------------------------------------------ *)
(* Enrichment lookup                                                    *)
(* ------------------------------------------------------------------ *)

\* item_name.lower() in ["unknown", ""], for the names of the model.
IsPlaceholder(item_name) == item_name[2] \in {"", "unknown", "Unknown"}

\* search_item_info: what it returns ("info" or "absent") and the
\* exception raised.  The guard (agent.py:250) is outside the try block:
\* .lower() on a value that is not a string raises AttributeError; any
\* failure of the lookup itself (found = FALSE) returns None.
search_item_info(item_name, found) ==
    IF ~Truthy(item_name)
    THEN [info |-> "absent", exc |-> "none"]
    ELSE IF ~IsStr(item_name)
    THEN [info |-> "absent", exc |-> "AttributeError"]
    ELSE IF IsPlaceholder(item_name)
    THEN [info |-> "absent", exc |-> "none"]
    ELSE [info |-> IF found THEN "info" ELSE "absent", exc |-> "none"]

(* ------------------------------------------------------------------ *)
(* The frame handlers of the two servers                                *)
(* ------------------------------------------------------------------ *)

\* Mutant of buffer_frame: pop() for pop(0), the newest frame is dropped.
buffer_frame_PopNewest(buf, image_bytes) ==
    LET b == Append(buf, image_bytes)
    IN  IF Len(b) > MAX_BUFFER_FRAMES THEN SubSeq(b, 1, Len(b) - 1) ELSE b

\* frame_buffer.append(frame); pop(0) when longer than MAX_BUFFER_FRAMES
buffer_frame(buf, image_bytes) ==
    LET b == Append(buf, image_bytes)
    IN  IF Len(b) > MAX_BUFFER_FRAMES THEN Tail(b) ELSE b

\* What a handler leaves behind: the objects, the buffer, the HTTP status
\* (0 for the tool server), the exception that reached the caller, the
\* number of llm.invoke calls made and the enrichment result.
Response(ag, pm, buf, status, exc, calls, search) ==
    [ag |-> ag, pm |-> pm, buf |-> buf, status |-> status, exc |-> exc,
     calls |-> calls, search |-> search]

\* POST /api/analyze-frame (api.py:105-209).  env: "nokey" (GOOGLE_API_KEY
\* unset), "badimage" (b64decode raises), "down" (llm.invoke raises), "ok".
analyze_frame(ag, pm, buf, image_bytes, env, result, enrich, found) ==
    IF env = "nokey"
    THEN Response(ag, pm, buf, 500, "HTTPException", 0, "skipped")
    ELSE IF env = "badimage"
    THEN Response(ag, pm, buf, 500, "binascii.Error", 0, "skipped")
    ELSE
    LET r == interpret_image(ag, pm, image_bytes, env, result)
    IN  IF r.exc # "none"
        THEN Response(r.ag, r.pm, buf, 500, r.exc, 1, "skipped")
        ELSE IF result.kind = "nonjson"
        THEN \* status = "unknown": the last branch
             Response(r.ag, r.pm, buf, 200, "none", 1, "skipped")
        ELSE IF result.kind = "nonobject"
        THEN \* parsed.get raises AttributeError: except Exception
             Response(r.ag, r.pm, buf, 500, "AttributeError", 1, "skipped")
        ELSE IF StatusOf(result) \in {Str("started"), Str("in progress")}
        THEN Response(r.ag, r.pm, buffer_frame(buf, image_bytes), 200,
                      "none", 1, "skipped")
        ELSE IF StatusOf(result) = Str("finished")
        THEN LET item_name == Get(result.item_name, Str(""))
                 s == IF enrich /\ Truthy(item_name)
                      THEN search_item_info(item_name, found)
                      ELSE [info |-> "skipped", exc |-> "none"]
             IN  IF s.exc # "none"
                 THEN Response(r.ag, r.pm, buf, 500, s.exc, 1, "skipped")
                 ELSE Response(r.ag, r.pm, <<>>, 200, "none", 1, s.info)
        ELSE Response(r.ag, r.pm, buf, 200, "none", 1, "skipped")

\* interpret_health_snapshot (main.py:69-137): no credential check, no
\* except clause but the one around json.loads.
interpret_health_snapshot(ag, pm, buf, image_bytes, env, result) ==
    LET r == interpret_image(ag, pm, image_bytes, env, result)
    IN  IF r.exc # "none"
        THEN Response(r.ag, r.pm, buf, 0, r.exc, 1, "skipped")
        ELSE IF result.kind = "nonjson"
        THEN Response(r.ag, r.pm, buf, 0, "none", 1, "skipped")
        ELSE IF result.kind = "nonobject"
        THEN Response(r.ag, r.pm, buf, 0, "AttributeError", 1, "skipped")
        ELSE IF StatusOf(result) \in {Str("started"), Str("in progress")}
        THEN Response(r.ag, r.pm, buffer_frame(buf, image_bytes), 0,
                      "none", 1, "skipped")
        ELSE IF StatusOf(result) = Str("finished")
        THEN Response(r.ag, r.pm, <<>>, 0, "none", 1, "skipped")
        ELSE Response(r.ag, r.pm, buf, 0, "none", 1, "skipped")

(* ------------------------------------------------------------------ *)
(* Requests                                                             *)
(* ------------------------------------------------------------------ *)

IsFinishedReply(result) ==
    result.kind = "object" /\ StatusOf(result) = Str("finished")

\* The replies a request may get: a finished one only while the ledger is
\* below MaxItems.
RepliesNow == { r \in Replies : IsFinishedReply(r) => id_counter <= MaxItems }

\* The history variable run after a request with this reply.
RunAfter(result) ==
    IF result.kind = "object" /\ StatusOf(result) = Str("started")
    THEN "open"
    ELSE IF result.kind = "object" /\ StatusOf(result) = Str("in progress")
    THEN run
    ELSE "none"

\* The history variable created after a handler that left resp behind.
CreatedAfter(resp) ==
    IF Len(resp.pm.protocol_items) > Len(protocol_items)
    THEN created + 1
    ELSE created

LastOf(op, env, result, enrich, resp) ==
    [op |-> op, env |-> env, reply |-> result, enrich |-> enrich,
     status |-> resp.status, exc |-> resp.exc, calls |-> resp.calls,
     search |-> resp.search]

\* The handler's result becomes the next state.
Install(resp) ==
    /\ current_action' = resp.ag.current_action
    /\ action_progress' = resp.ag.action_progress
    /\ conversation_memory' = resp.ag.conversation_memory
    /\ protocol_items' = resp.pm.protocol_items
    /\ id_counter' = resp.pm.id_counter
    /\ frame_buffer' = resp.buf

Init ==
    /\ server \in {"api", "mcp"}
    /\ current_action = Str("")
    /\ action_progress = FINISHED
    /\ conversation_memory = <<>>
    /\ protocol_items = <<>>
    /\ id_counter = 1
    /\ frame_buffer = <<>>
    /\ nframes = 0
    /\ run = "none"
    /\ last = [op |-> "init", env |-> "ok", reply |-> NoReply,
               enrich |-> FALSE, status |-> 0, exc |-> "none", calls |-> 0,
               search |-> "skipped"]
    /\ created = 0
    /\ req = <<>>
    /\ start = <<>>

\* One POST /api/analyze-frame request, start to end.
AnalyzeFrame ==
    /\ server = "api"
    /\ nframes < MaxFrames
    /\ \E env \in {"nokey", "badimage", "down", "ok"} :
       \E result \in (IF env = "ok" THEN RepliesNow ELSE {NoReply}) :
       \E enrich \in (IF IsFinishedReply(result) /\ Truthy(result.item_name)
                      THEN BOOLEAN ELSE {FALSE}) :
       \E found \in (IF enrich /\ IsStr(result.item_name)
                     THEN BOOLEAN ELSE {FALSE}) :
          LET resp == analyze_frame(
                          AgentOf(current_action, action_progress,
                                  conversation_memory),
                          ManagerOf(protocol_items, id_counter),
                          frame_buffer, nframes + 1, env, result, enrich,
                          found)
          IN  /\ Install(resp)
              /\ run' = RunAfter(result)
              /\ last' = LastOf("analyze_frame", env, result, enrich, resp)
              /\ created' = CreatedAfter(resp)
    /\ nframes' = nframes + 1
    /\ UNCHANGED << server, req, start >>

\* One interpret_health_snapshot tool call, start to end.
InterpretHealthSnapshot ==
    /\ server = "mcp"
    /\ nframes < MaxFrames
    /\ \E env \in {"down", "ok"} :
       \E result \in (IF env = "ok" THEN RepliesNow ELSE {NoReply}) :
          LET resp == interpret_health_snapshot(
                          AgentOf(current_action, action_progress,
                                  conversation_memory),
                          ManagerOf(protocol_items, id_counter),
                          frame_buffer, nframes + 1, env, result)
          IN  /\ Install(resp)
              /\ run' = RunAfter(result)
              /\ last' = LastOf("interpret_health_snapshot", env, result,
                                FALSE, resp)
              /\ created' = CreatedAfter(resp)
    /\ nframes' = nframes + 1
    /\ UNCHANGED << server, req, start >>

\* Mutant of ResetAgentApi: frame_buffer is not emptied.
ResetAgentApi_KeepsBuffer ==
    /\ server = "api"
    /\ Install(Response(
           clear_memory(AgentOf(Str(""), FINISHED, conversation_memory)),
           clear(ManagerOf(protocol_items, id_counter)),
           frame_buffer, 200, "none", 0, "skipped"))
    /\ run' = "none"
    /\ last' = [op |-> "reset_agent", env |-> "ok", reply |-> NoReply,
                enrich |-> FALSE, status |-> 200, exc |-> "none",
                calls |-> 0, search |-> "skipped"]
    /\ UNCHANGED << server, nframes, created, req, start >>

\* POST /api/reset-agent (api.py:223-232)
ResetAgentApi ==
    /\ server = "api"
    /\ Install(Response(
           clear_memory(AgentOf(Str(""), FINISHED, conversation_memory)),
           clear(ManagerOf(protocol_items, id_counter)),
           <<>>, 200, "none", 0, "skipped"))
    /\ run' = "none"
    /\ last' = [op |-> "reset_agent", env |-> "ok", reply |-> NoReply,
                enrich |-> FALSE, status |-> 200, exc |-> "none",
                calls |-> 0, search |-> "skipped"]
    /\ UNCHANGED << server, nframes, created, req, start >>

\* Mutant of ResetAgentMcp: the protocol manager is cleared as well.
ResetAgentMcp_ClearsLedger ==
    /\ server = "mcp"
    /\ Install(Response(
           clear_memory(AgentOf(Str(""), FINISHED, conversation_memory)),
           clear(ManagerOf(protocol_items, id_counter)),
           <<>>, 0, "none", 0, "skipped"))
    /\ run' = "none"
    /\ last' = [op |-> "reset_agent", env |-> "ok", reply |-> NoReply,
                enrich |-> FALSE, status |-> 0, exc |-> "none",
                calls |-> 0, search |-> "skipped"]
    /\ UNCHANGED << server, nframes, created, req, start >>

\* reset_agent tool (main.py:160-168): the protocol manager is not touched.
ResetAgentMcp ==
    /\ server = "mcp"
    /\ Install(Response(
           clear_memory(AgentOf(Str(""), FINISHED, conversation_memory)),
           ManagerOf(protocol_items, id_counter),
           <<>>, 0, "none", 0, "skipped"))
    /\ run' = "none"
    /\ last' = [op |-> "reset_agent", env |-> "ok", reply |-> NoReply,
                enrich |-> FALSE, status |-> 0, exc |-> "none",
                calls |-> 0, search |-> "skipped"]
    /\ UNCHANGED << server, nframes, created, req, start >>

Next ==
    \/ AnalyzeFrame
    \/ InterpretHealthSnapshot
    \/ ResetAgentApi
    \/ ResetAgentMcp

Spec == Init /\ [][Next]_vars

(* ------------------------------------------------------------------ *)
(* Requests in flight at once                                           *)
(*                                                                      *)
(* /api/analyze-frame is a plain def endpoint: the server runs each     *)
(* request on a thread of its pool, and the handler takes no lock.  A   *)
(* thread may be suspended between any two statements (it is for sure   *)
(* while llm.invoke waits for the service), so a request is a sequence  *)
(* of steps, each one or a few statements of the handler, and the steps *)
(* of the requests interleave.                                          *)
(* ------------------------------------------------------------------ *)

Requests == {1, 2}

\* The replies of the requests in flight: well-formed ones.
ConcReplies ==
    { r \in ObjectReplies :
        \/ r.status = Str("started") /\ r.action = Str("walk")
        \/ r.status \in {Str("in progress"), Str("not detected")}
             /\ r.action = Absent
        \/ /\ r.status = Str("finished")
           /\ r.action = Absent
           /\ r.item_name = Str("D3")
           /\ r.details = Absent }

\* The history after the first n frames, none of them finished.
ExchangesTo(n) ==
    [k \in 1..(2 * n) |-> IF k % 2 = 1
                          THEN HumanMessage((k + 1) \div 2)
                          ELSE AIMessage(k \div 2)]

\* The states the requests start from: the state after construction, the
\* state after one frame was answered started, walk, and the state after
\* MAX_BUFFER_FRAMES frames of that action, when the buffer is full.
ConcStarts ==
    { [ag |-> AgentOf(Str(""), FINISHED, <<>>),
       pm |-> ManagerOf(<<>>, 1), buf |-> <<>>, nframes |-> 0],
      [ag |-> AgentOf(Str("walk"), STARTED,
                      << HumanMessage(1), AIMessage(1) >>),
       pm |-> ManagerOf(<<>>, 1), buf |-> <<1>>, nframes |-> 1],
      [ag |-> AgentOf(Str("walk"), IN_PROGRESS,
                      ExchangesTo(MAX_BUFFER_FRAMES)),
       pm |-> ManagerOf(<<>>, 1),
       buf |-> [k \in 1..MAX_BUFFER_FRAMES |-> k],
       nframes |-> MAX_BUFFER_FRAMES] }

\* The frame request i carries.
FrameOf(i) == start.nframes + i

\* A request that has not built its ProtocolItem holds no item.
NoItem == ProtocolItemOf(0, NoReply)

ConcInit ==
    /\ server = "api"
    /\ start \in ConcStarts
    /\ current_action = start.ag.current_action
    /\ action_progress = start.ag.action_progress
    /\ conversation_memory = start.ag.conversation_memory
    /\ protocol_items = start.pm.protocol_items
    /\ id_counter = start.pm.id_counter
    /\ frame_buffer = start.buf
    /\ nframes = start.nframes
    /\ run = "none"
    /\ last = [op |-> "init", env |-> "ok", reply |-> NoReply,
               enrich |-> FALSE, status |-> 0, exc |-> "none", calls |-> 0,
               search |-> "skipped"]
    /\ created = 0
    /\ req = [i \in Requests |->
                [pc |-> "start", reply |-> NoReply, item |-> NoItem,
                 exc |-> "none"]]

\* Request i moves on to pc.
Goto(i, pc) == req' = [req EXCEPT ![i].pc = pc]

\* llm.invoke(messages) returns (agent.py:321-326).
Invoke(i) ==
    /\ req[i].pc = "start"
    /\ \E result \in ConcReplies :
          req' = [req EXCEPT ![i].pc = "reply", ![i].reply = result]
    /\ UNCHANGED << server, current_action, action_progress,
                    conversation_memory, protocol_items, id_counter,
                    frame_buffer, nframes, run, last, created, start >>

\* The two appends to conversation_memory (agent.py:329-330).
SaveExchange(i) ==
    /\ req[i].pc = "reply"
    /\ conversation_memory' =
          save_exchange(AgentOf(current_action, action_progress,
                                conversation_memory),
                        FrameOf(i)).conversation_memory
    /\ Goto(i, "saved")
    /\ UNCHANGED << server, current_action, action_progress,
                    protocol_items, id_counter, frame_buffer, nframes, run,
                    last, created, start >>

\* json.loads, the status and the push_update of its branch
\* (agent.py:333-343).
HandleReply(i) ==
    /\ req[i].pc = "saved"
    /\ LET parsed == req[i].reply
           ag == AgentOf(current_action, action_progress,
                         conversation_memory)
           ag2 == IF StatusOf(parsed) = Str("started")
                  THEN push_update(ag, DetectedAction(parsed), STARTED)
                  ELSE IF StatusOf(parsed) = Str("in progress")
                  THEN push_update(ag, Or(DetectedAction(parsed),
                                          current_action), IN_PROGRESS)
                  ELSE IF StatusOf(parsed) = Str("finished")
                  THEN push_update(ag, Or(DetectedAction(parsed),
                                          current_action), FINISHED)
                  ELSE ag
       IN  /\ current_action' = ag2.current_action
           /\ action_progress' = ag2.action_progress
           /\ Goto(i, IF StatusOf(parsed) = Str("finished")
                      THEN "build" ELSE "buffer")
    /\ UNCHANGED << server, conversation_memory, protocol_items, id_counter,
                    frame_buffer, nframes, run, last, created, start >>

\* add_completed_action: the ProtocolItem is built from _id_counter
\* (agent.py:50-63).
BuildItem(i) ==
    /\ req[i].pc = "build"
    /\ req' = [req EXCEPT ![i].pc = "count",
                          ![i].item = ProtocolItemOf(id_counter,
                                                     req[i].reply)]
    /\ UNCHANGED << server, current_action, action_progress,
                    conversation_memory, protocol_items, id_counter,
                    frame_buffer, nframes, run, last, created, start >>

\* self._id_counter += 1 (agent.py:64)
AdvanceCounter(i) ==
    /\ req[i].pc = "count"
    /\ id_counter' = id_counter + 1
    /\ Goto(i, "append")
    /\ UNCHANGED << server, current_action, action_progress,
                    conversation_memory, protocol_items, frame_buffer,
                    nframes, run, last, created, start >>

\* self.protocol_items.append(item) (agent.py:65-66)
AppendItem(i) ==
    /\ req[i].pc = "append"
    /\ protocol_items' = Append(protocol_items, req[i].item)
    /\ created' = created + 1
    /\ Goto(i, "clear")
    /\ UNCHANGED << server, current_action, action_progress,
                    conversation_memory, id_counter, frame_buffer, nframes,
                    run, last, start >>

\* agent_state.clear_memory() (agent.py:346)
ClearMemory(i) ==
    /\ req[i].pc = "clear"
    /\ conversation_memory' =
          clear_memory(AgentOf(current_action, action_progress,
                               conversation_memory)).conversation_memory
    /\ Goto(i, "buffer")
    /\ UNCHANGED << server, current_action, action_progress,
                    protocol_items, id_counter, frame_buffer, nframes, run,
                    last, created, start >>

\* Back in analyze_frame: the reply is parsed again and the buffer branch
\* taken (api.py:135-204): frame_buffer.append for started and in
\* progress, frame_buffer = [] for finished, nothing otherwise.
ManageBuffer(i) ==
    /\ req[i].pc = "buffer"
    /\ LET status == StatusOf(req[i].reply)
       IN  IF status \in {Str("started"), Str("in progress")}
           THEN /\ frame_buffer' = Append(frame_buffer, FrameOf(i))
                /\ Goto(i, "trim")
           ELSE IF status = Str("finished")
           THEN /\ frame_buffer' = <<>>
                /\ Goto(i, "done")
           ELSE /\ frame_buffer' = frame_buffer
                /\ Goto(i, "done")
    /\ UNCHANGED << server, current_action, action_progress,
                    conversation_memory, protocol_items, id_counter,
                    nframes, run, last, created, start >>

\* if len(frame_buffer) > MAX_BUFFER_FRAMES (api.py:145): the test, and
\* the response when it is false.
TrimBuffer(i) ==
    /\ req[i].pc = "trim"
    /\ Goto(i, IF Len(frame_buffer) > MAX_BUFFER_FRAMES
               THEN "pop" ELSE "done")
    /\ UNCHANGED << server, current_action, action_progress,
                    conversation_memory, protocol_items, id_counter,
                    frame_buffer, nframes, run, last, created, start >>

\* frame_buffer.pop(0) (api.py:146) on the list the global names by now,
\* and the response.  pop on an empty list raises IndexError, which the
\* except Exception clause turns into HTTP 500 (api.py:206-209).
PopOldest(i) ==
    /\ req[i].pc = "pop"
    /\ IF frame_buffer = <<>>
       THEN /\ req' = [req EXCEPT ![i].pc = "done",
                                  ![i].exc = "IndexError"]
            /\ frame_buffer' = frame_buffer
       ELSE /\ Goto(i, "done")
            /\ frame_buffer' = Tail(frame_buffer)
    /\ UNCHANGED << server, current_action, action_progress,
                    conversation_memory, protocol_items, id_counter,
                    nframes, run, last, created, start >>

ConcNext ==
    \E i \in Requests :
        \/ Invoke(i)
        \/ SaveExchange(i)
        \/ HandleReply(i)
        \/ BuildItem(i)
        \/ AdvanceCounter(i)
        \/ AppendItem(i)
        \/ ClearMemory(i)
        \/ ManageBuffer(i)
        \/ TrimBuffer(i)
        \/ PopOldest(i)

\* Two /api/analyze-frame requests in flight at once.
SpecConc == ConcInit /\ [][ConcNext]_vars

(* ------------------------------------------------------------------ *)
(* A long stream of frames                                              *)
(*                                                                      *)
(* The requests of Spec, one at a time, over enough frames to fill the  *)
(* frame buffer; every reply is well-formed and names a status that     *)
(* buffers the frame or ends the action.                                *)
(* ------------------------------------------------------------------ *)

StreamReplies ==
    { r \in ConcReplies :
        /\ r.status # Str("not detected")
        /\ IsFinishedReply(r) => id_counter <= MaxItems }

\* One POST /api/analyze-frame request of the stream.
StreamFrameApi ==
    /\ server = "api"
    /\ nframes < MaxStreamFrames
    /\ \E result \in StreamReplies :
          LET resp == analyze_frame(
                          AgentOf(current_action, action_progress,
                                  conversation_memory),
                          ManagerOf(protocol_items, id_counter),
                          frame_buffer, nframes + 1, "ok", result, FALSE,
                          FALSE)
          IN  /\ Install(resp)
              /\ run' = RunAfter(result)
              /\ last' = LastOf("analyze_frame", "ok", result, FALSE, resp)
              /\ created' = CreatedAfter(resp)
    /\ nframes' = nframes + 1
    /\ UNCHANGED << server, req, start >>

\* One interpret_health_snapshot call of the stream.
StreamFrameMcp ==
    /\ server = "mcp"
    /\ nframes < MaxStreamFrames
    /\ \E result \in StreamReplies :
          LET resp == interpret_health_snapshot(
                          AgentOf(current_action, action_progress,
                                  conversation_memory),
                          ManagerOf(protocol_items, id_counter),
                          frame_buffer, nframes + 1, "ok", result)
          IN  /\ Install(resp)
              /\ run' = RunAfter(result)
              /\ last' = LastOf("interpret_health_snapshot", "ok", result,
                                FALSE, resp)
              /\ created' = CreatedAfter(resp)
    /\ nframes' = nframes + 1
    /\ UNCHANGED << server, req, start >>

StreamNext ==
    \/ StreamFrameApi
    \/ StreamFrameMcp

SpecStream == Init /\ [][StreamNext]_vars

(* ------------------------------------------------------------------ *)
(* Vocabulary of the properties                                         *)
(* ------------------------------------------------------------------ *)

FrameOps == {"analyze_frame", "interpret_health_snapshot"}

\* This step handled a frame.
FrameStep == nframes' = nframes + 1

\* The request just handled was a frame whose reply reached the handler.
LastReplied == last.op \in FrameOps /\ last.env = "ok"

\* ... and the reply was a JSON object with this status.
LastClassified(s) ==
    /\ LastReplied
    /\ last.reply.kind = "object"
    /\ last.reply.status = Str(s)

\* ... and the reply was a JSON object with no status the code recognises.
LastNotDetected ==
    /\ LastReplied
    /\ last.reply.kind = "object"
    /\ last.reply.status \in {Absent, Str("not detected"), Str("paused")}

Active == action_progress \in {STARTED, IN_PROGRESS}

\* The exchange of the frame handled in this step.
ThisExchange == << HumanMessage(nframes'), AIMessage(nframes') >>

(* ------------------------------------------------------------------ *)
(* C1                                                                   *)
(* ------------------------------------------------------------------ *)

\* C1: over a run of replies started, in progress*, finished the ledger
\* gains exactly one entry: none at the started frame, none at the in
\* progress frames of the run, and one, appended after the existing ones,
\* at the finished frame that ends the run.
C1_OneEntryPerRun ==
    [][ FrameStep =>
          /\ LastClassified("started")' => protocol_items' = protocol_items
          /\ (run = "open" /\ LastClassified("in progress")')
                => protocol_items' = protocol_items
          /\ (run = "open" /\ LastClassified("finished")')
                => /\ Len(protocol_items') = Len(protocol_items) + 1
                   /\ SubSeq(protocol_items', 1, Len(protocol_items))
                        = protocol_items ]_vars

(* ------------------------------------------------------------------ *)
(* C2                                                                   *)
(* ------------------------------------------------------------------ *)

C3_FinishedEmptiesHistory ==
    [][ (FrameStep /\ Active /\ LastClassified("finished")')
          => /\ action_progress' = FINISHED
             /\ conversation_memory' = <<>> ]_vars

(* ------------------------------------------------------------------ *)
(* C4                                                                   *)
(* ------------------------------------------------------------------ *)

\* C4: right after a started reply is handled the history holds no
\* exchange older than that frame: it is empty or the frame's own pair.
C4_StartedDropsOldHistory ==
    [][ (FrameStep /\ LastClassified("started")')
          => conversation_memory' \in {<<>>, ThisExchange} ]_vars

(* ------------------------------------------------------------------ *)
(* C5                                                                   *)
(* ------------------------------------------------------------------ *)

\* C5: a reply that is not JSON leaves the stage, the label and the ledger
\* as they were, in every stage, and the frame's observation and raw reply
\* are appended to the history.
C5_UnparseableReplyKeepsState ==
    [][ (FrameStep /\ LastReplied' /\ last'.reply.kind = "nonjson")
          => /\ action_progress' = action_progress
             /\ current_action' = current_action
             /\ protocol_items' = protocol_items
             /\ id_counter' = id_counter
             /\ conversation_memory' = conversation_memory \o ThisExchange
      ]_vars

\* An unparseable reply arrived in the middle of an action.
C5_Witness ==
    /\ LastReplied
    /\ last.reply.kind = "nonjson"
    /\ action_progress = IN_PROGRESS
    /\ current_action = Str("walk")
    /\ Len(conversation_memory) = 6

(* ------------------------------------------------------------------ *)
(* C6                                                                   *)
(* ------------------------------------------------------------------ *)

\* C6: a reply whose status is "not detected", missing or not one the code
\* knows changes neither the stage nor the label nor the ledger, whatever
\* the stage.
C6_NotDetectedKeepsState ==
    [][ (FrameStep /\ LastNotDetected')
          => /\ action_progress' = action_progress
             /\ current_action' = current_action
             /\ protocol_items' = protocol_items
             /\ id_counter' = id_counter ]_vars

\* A reply without a status, carrying a label, arrived during an action
\* tracked under another label.
C6_Witness ==
    /\ LastNotDetected
    /\ last.reply.status = Absent
    /\ last.reply.action = Str("walk")
    /\ action_progress = STARTED
    /\ current_action = Str("")

(* ------------------------------------------------------------------ *)
(* C7                                                                   *)
(* ------------------------------------------------------------------ *)

\* C7: the entry committed by a finished reply is titled with the reply's
\* label, or, when the reply has no label (missing or empty), with the
\* current_action from before the frame.  Stated for the replies that name
\* no item, handled while a label is known.
C7_TitleIsLabel ==
    [][ (FrameStep /\ LastClassified("finished")'
           /\ last'.reply.item_name = Absent
           /\ Truthy(current_action)
           /\ Len(protocol_items') = Len(protocol_items) + 1)
          => protocol_items'[Len(protocol_items')].name
               = Or(DetectedAction(last'.reply), current_action) ]_vars

(* ------------------------------------------------------------------ *)
(* C8                                                                   *)
(* ------------------------------------------------------------------ *)

\* C8: whatever the classifier replied, the frame handler completes
\* normally: no exception reaches the caller once the service has replied.
C8_ReplyNeverFails == LastReplied => last.exc = "none"

(* ------------------------------------------------------------------ *)
(* C9                                                                   *)
(* ------------------------------------------------------------------ *)

\* C9: recording a finished reply never fails: whatever the payload holds
\* or lacks, exactly one entry is appended and the next id is taken.
C9_RecordNeverFails ==
    [][ (FrameStep /\ LastClassified("finished")')
          => /\ Len(protocol_items') = Len(protocol_items) + 1
             /\ id_counter' = id_counter + 1
             /\ last'.exc \notin {"AttributeError", "ValidationError"}
      ]_vars

(* ------------------------------------------------------------------ *)
(* C10                                                                  *)
(* ------------------------------------------------------------------ *)

\* C10: when the credential is missing or the classifier call fails, the
\* caller gets an error (HTTP 500 from /api/analyze-frame), the service was
\* called at most once, and the tracking state, the ledger and the frame
\* buffer are as before the request.
C10_ServiceFailureLeavesState ==
    [][ (FrameStep /\ last'.env \in {"nokey", "down"})
          => /\ last'.exc # "none"
             /\ last'.op = "analyze_frame" => last'.status = 500
             /\ last'.calls <= 1
             /\ UNCHANGED << current_action, action_progress,
                             conversation_memory, protocol_items,
                             id_counter, frame_buffer >> ]_vars

\* The classifier call failed in the middle of an action, after an entry
\* had been committed.
C10_Witness ==
    /\ last.op = "analyze_frame"
    /\ last.env = "down"
    /\ last.status = 500
    /\ last.calls = 1
    /\ action_progress = STARTED
    /\ conversation_memory # <<>>
    /\ frame_buffer # <<>>
    /\ protocol_items # <<>>

(* ------------------------------------------------------------------ *)
(* C11                                                                  *)
(* ------------------------------------------------------------------ *)

IsPrefix(s, t) == Len(s) <= Len(t) /\ SubSeq(t, 1, Len(s)) = s

\* This step is POST /api/reset-agent, the one caller of clear().
ClearStep == server = "api" /\ last'.op = "reset_agent"

\* C11: the ledger is append-only.  Every step but the reset that clears
\* it leaves the entries it held unchanged and in order, as a prefix of
\* the new ledger, and the ledger grows, by one entry, only in a step
\* that handles a frame whose reply is classified finished.
C11_LedgerAppendOnly ==
    [][ /\ ~ClearStep => IsPrefix(protocol_items, protocol_items')
        /\ Len(protocol_items') > Len(protocol_items)
             => /\ FrameStep
                /\ LastClassified("finished")'
                /\ Len(protocol_items') = Len(protocol_items) + 1 ]_vars

\* A second entry has just been appended behind the first.
C11_Witness ==
    /\ LastClassified("finished")
    /\ Len(protocol_items) = 2
    /\ created = 2
    /\ protocol_items[1].name = Str("Unknown action")
    /\ protocol_items[2].name = Str("D3")

(* ------------------------------------------------------------------ *)
(* C12                                                                  *)
(* ------------------------------------------------------------------ *)

\* C12: when requests are handled one at a time, the entries of the
\* ledger carry pairwise distinct ids that increase in append order: the
\* entry at position i carries the i-th id given out since the ledger was
\* last cleared, and the counter names the next one.
C12_IdsFollowAppendOrder ==
    /\ \A i \in 1..Len(protocol_items) :
          protocol_items[i].id = <<"action_", i>>
    /\ \A i, j \in 1..Len(protocol_items) :
          i # j => protocol_items[i].id # protocol_items[j].id
    /\ id_counter = Len(protocol_items) + 1

\* Two entries were committed after a clear that had dropped an earlier one.
C12_Witness ==
    /\ server = "api"
    /\ Len(protocol_items) = 2
    /\ created = 3
    /\ protocol_items[2].id = <<"action_", 2>>

(* ------------------------------------------------------------------ *)
(* C13                                                                  *)
(* ------------------------------------------------------------------ *)

\* C13: right after the ledger was cleared, get_summary reports
\* total_actions = 0 with no items and no category, and the counter is
\* back at its first value; an entry appended to an empty ledger, after a
\* clear as at the very start, gets the first id, action_1.
C13_ClearRestartsLedger ==
    /\ []((server = "api" /\ last.op = "reset_agent")
            => LET summary == get_summary(ManagerOf(protocol_items,
                                                    id_counter))
               IN  /\ summary.total_actions = 0
                   /\ summary.items = <<>>
                   /\ DOMAIN summary.by_category = {}
                   /\ id_counter = 1)
    /\ [][ (protocol_items = <<>> /\ protocol_items' # <<>>)
             => /\ Len(protocol_items') = 1
                /\ protocol_items'[1].id = <<"action_", 1>> ]_vars

\* The second entry ever created was appended after a clear and got the
\* first id again.
C13_Witness ==
    /\ server = "api"
    /\ LastClassified("finished")
    /\ created = 2
    /\ Len(protocol_items) = 1
    /\ protocol_items[1].id = <<"action_", 1>>

(* ------------------------------------------------------------------ *)
(* C14                                                                  *)
(* ------------------------------------------------------------------ *)

\* C14: right after POST /api/reset-agent, whatever the state before, the
\* state is the initial one: current_action empty, stage finished, history
\* empty, ledger empty with the counter at its first value, frame buffer
\* empty.
C14_ResetRestoresInitialState ==
    (server = "api" /\ last.op = "reset_agent")
      => /\ last.status = 200
         /\ current_action = Str("")
         /\ action_progress = FINISHED
         /\ conversation_memory = <<>>
         /\ protocol_items = <<>>
         /\ id_counter = 1
         /\ frame_buffer = <<>>

\* A reset came after three frames, one of which had committed an entry.
C14_Witness ==
    /\ server = "api"
    /\ last.op = "reset_agent"
    /\ nframes = 3
    /\ created = 1
    /\ protocol_items = <<>>

(* ------------------------------------------------------------------ *)
(* C15                                                                  *)
(* ------------------------------------------------------------------ *)

\* Both requests in flight have responded.
AllDone == \A i \in Requests : req[i].pc = "done"

\* The tracking state, the ledger and the frame buffer.
StateNow ==
    [ag |-> AgentOf(current_action, action_progress, conversation_memory),
     pm |-> ManagerOf(protocol_items, id_counter),
     buf |-> frame_buffer]

\* The state after request i then request j, each handled start to end,
\* with the replies they got.
SerialOutcome(i, j) ==
    LET r1 == analyze_frame(start.ag, start.pm, start.buf, FrameOf(i),
                            "ok", req[i].reply, FALSE, FALSE)
        r2 == analyze_frame(r1.ag, r1.pm, r1.buf, FrameOf(j), "ok",
                            req[j].reply, FALSE, FALSE)
    IN  [ag |-> r2.ag, pm |-> r2.pm, buf |-> r2.buf]

\* C15: when two /api/analyze-frame requests are in flight at once, the
\* state they leave behind is the state one of the two serial orders of
\* the same requests, with the same replies, leaves behind.
C15_ConcurrentRequestsSerialize ==
    AllDone => StateNow \in {SerialOutcome(1, 2), SerialOutcome(2, 1)}

(* ------------------------------------------------------------------ *)
(* C16                                                                  *)
(* ------------------------------------------------------------------ *)

\* This step buffered its frame: the reply was started or in progress.
BufferedStep ==
    /\ FrameStep
    /\ LastClassified("started")' \/ LastClassified("in progress")'

\* C16: between requests handled one at a time the frame buffer holds at
\* most MAX_BUFFER_FRAMES = 20 frames, in arrival order; a frame added to
\* a buffer that is not full goes to the end, and a frame added to a full
\* buffer goes to the end while the oldest frame is evicted.
C16_BufferBoundedFifo ==
    /\ [](Len(frame_buffer) <= MAX_BUFFER_FRAMES)
    /\ [](\A i \in 1..Len(frame_buffer) - 1 :
             frame_buffer[i] < frame_buffer[i + 1])
    /\ [][ BufferedStep
             => frame_buffer' =
                  IF Len(frame_buffer) < MAX_BUFFER_FRAMES
                  THEN Append(frame_buffer, nframes')
                  ELSE Append(Tail(frame_buffer), nframes') ]_vars

\* The twenty-first frame of an action was buffered and the first evicted.
C16_Witness ==
    /\ nframes = 21
    /\ Len(frame_buffer) = MAX_BUFFER_FRAMES
    /\ frame_buffer[1] = 2
    /\ frame_buffer[MAX_BUFFER_FRAMES] = 21

(* ------------------------------------------------------------------ *)
(* C17                                                                  *)
(* ------------------------------------------------------------------ *)

\* C17: between requests, a frame buffer that holds frames means an
\* action is under way: whenever the stage is finished the buffer is
\* empty, as it is right after a frame classified finished and after a
\* not detected frame handled while idle.
C17_IdleBufferEmpty == action_progress = FINISHED => frame_buffer = <<>>

(* ------------------------------------------------------------------ *)
(* C18                                                                  *)
(* ------------------------------------------------------------------ *)

\* C18: enrichment never affects the tracking state.  After a frame
\* classified finished is handled by /api/analyze-frame, the stage, the
\* label, the history, the ledger and the frame buffer are what the same
\* request leaves behind with enrichment disabled, whether the lookup was
\* skipped, succeeded, found nothing or failed.
C18_EnrichmentKeepsState ==
    [][ (FrameStep /\ server = "api" /\ LastClassified("finished")')
          => LET plain == analyze_frame(
                              AgentOf(current_action, action_progress,
                                      conversation_memory),
                              ManagerOf(protocol_items, id_counter),
                              frame_buffer, nframes', "ok", last'.reply,
                              FALSE, FALSE)
             IN  /\ current_action' = plain.ag.current_action
                 /\ action_progress' = plain.ag.action_progress
                 /\ conversation_memory' = plain.ag.conversation_memory
                 /\ protocol_items' = plain.pm.protocol_items
                 /\ id_counter' = plain.pm.id_counter
                 /\ frame_buffer' = plain.buf ]_vars

(* ------------------------------------------------------------------ *)
(* C19                                                                  *)
(* ------------------------------------------------------------------ *)

\* This step handled a reply for which interpret_image calls push_update.
PushStep ==
    /\ FrameStep
    /\ \/ LastClassified("started")'
       \/ LastClassified("in progress")'
       \/ LastClassified("finished")'

\* C19 as stated: push_update(label, stage) sets the stage to stage and
\* current_action to label, except that an empty label leaves the
\* previous current_action.
C19_EmptyLabelKeepsPrevious ==
    [][ PushStep
          => LET label == PushedLabel(last'.reply, current_action)
             IN  /\ action_progress' = PushedStage(last'.reply)
                 /\ current_action' = IF label = Str("")
                                      THEN current_action
                                      ELSE label ]_vars

\* C19 as amended: push_update(label, stage) sets the stage to stage and
\* current_action to label, an empty label included, from any prior
\* state; it changes nothing else: after a started or in progress reply
\* the history is the one before plus the frame's exchange and the ledger
\* is as before.
C19_PushUpdateSetsBoth ==
    [][ PushStep
          => /\ action_progress' = PushedStage(last'.reply)
             /\ current_action' = PushedLabel(last'.reply, current_action)
             /\ ~LastClassified("finished")'
                  => /\ conversation_memory'
                          = conversation_memory \o ThisExchange
                     /\ protocol_items' = protocol_items
                     /\ id_counter' = id_counter ]_vars

\* An action labelled walk was committed, then a started reply with an
\* empty label began a new action and emptied current_action.
C19_Witness ==
    /\ nframes = 2
    /\ LastClassified("started")
    /\ last.reply.action = Str("")
    /\ Len(protocol_items) = 1
    /\ protocol_items[1].name = Str("walk")
    /\ action_progress = STARTED
    /\ current_action = Str("")
    /\ Len(conversation_memory) = 2

(* ------------------------------------------------------------------ *)
(* C20                                                                  *)
(* ------------------------------------------------------------------ *)

\* C20: the summary get_summary returns carries calorie totals, with
\* net_calories = totals.calories_consumed - totals.calories_burned.
C20_NetCaloriesBalance ==
    LET summary == get_summary(ManagerOf(protocol_items, id_counter))
    IN  protocol_items # <<>>
          => /\ {"totals", "net_calories"} \subseteq DOMAIN summary
             /\ summary.net_calories
                  = summary.totals.calories_consumed
                      - summary.totals.calories_burned

(* ------------------------------------------------------------------ *)
(* C21                                                                  *)
(* ------------------------------------------------------------------ *)

\* C21: the ledger gains an entry only when a finished reply is handled
\* while the stage is started or in progress; a finished reply handled
\* while the stage is finished, such as a second one in a row, leaves the
\* ledger as it is.
C21_CommitOnlyWhileActive ==
    [][ /\ Len(protocol_items') > Len(protocol_items)
             => FrameStep /\ LastClassified("finished")' /\ Active
        /\ (FrameStep /\ LastClassified("finished")' /\ ~Active)
             => /\ protocol_items' = protocol_items
                /\ id_counter' = id_counter ]_vars

(* ------------------------------------------------------------------ *)
(* C22                                                                  *)
(* ------------------------------------------------------------------ *)

\* C22: the stage in progress is entered only from started or in
\* progress, so that every state in progress follows a started reply of
\* the same cycle; an in progress reply handled while the stage is
\* finished does not move the stage.
C22_InProgressOnlyAfterStarted ==
    [][ /\ action_progress' = IN_PROGRESS => Active
        /\ (FrameStep /\ LastClassified("in progress")' /\ ~Active)
             => action_progress' = FINISHED ]_vars

(* ------------------------------------------------------------------ *)
(* C23                                                                  *)
(* ------------------------------------------------------------------ *)

\* C23: finishing is all or nothing: a step that handles a finished reply
\* and moves the stage from started or in progress to finished has also
\* appended exactly one entry to the ledger and emptied the history.
C23_FinishIsAllOrNothing ==
    [][ (FrameStep /\ LastClassified("finished")' /\ Active
           /\ action_progress' = FINISHED)
          => /\ Len(protocol_items') = Len(protocol_items) + 1
             /\ conversation_memory' = <<>> ]_vars

(* ------------------------------------------------------------------ *)
(* C24                                                                  *)
(* ------------------------------------------------------------------ *)

\* C24: when requests are handled one at a time the history is a sequence
\* of complete exchanges: its length is even and it alternates the frame
\* then the reply to that frame; a frame whose reply arrived and is not
\* classified finished extends it by its own pair, after the pairs
\* already there.
C24_HistoryIsPairs ==
    /\ [](/\ Len(conversation_memory) % 2 = 0
          /\ \A k \in 1..(Len(conversation_memory) \div 2) :
                /\ conversation_memory[2 * k - 1].role = "human"
                /\ conversation_memory[2 * k].role = "ai"
                /\ conversation_memory[2 * k].frame
                     = conversation_memory[2 * k - 1].frame)
    /\ [][ (FrameStep /\ LastReplied' /\ ~LastClassified("finished")')
             => conversation_memory' = conversation_memory \o ThisExchange
       ]_vars

\* Three frames, none of them finished, left three pairs in arrival order;
\* the last reply was not even a JSON object.
C24_Witness ==
    /\ nframes = 3
    /\ LastReplied
    /\ last.reply.kind = "nonobject"
    /\ conversation_memory
         = << HumanMessage(1), AIMessage(1), HumanMessage(2), AIMessage(2),
              HumanMessage(3), AIMessage(3) >>

(* ------------------------------------------------------------------ *)
(* C25                                                                  *)
(* ------------------------------------------------------------------ *)

\* C25: the reset_agent tool of the tool server empties current_action,
\* sets the stage to finished, empties the history and the frame buffer,
\* and leaves the ledger and its id counter as they were.
C25_ToolResetKeepsLedger ==
    [][ (server = "mcp" /\ last'.op = "reset_agent")
          => /\ current_action' = Str("")
             /\ action_progress' = FINISHED
             /\ conversation_memory' = <<>>
             /\ frame_buffer' = <<>>
             /\ protocol_items' = protocol_items
             /\ id_counter' = id_counter ]_vars

\* The tool was called after an entry was committed and a new action had
\* begun: the entry is still there.
C25_Witness ==
    /\ server = "mcp"
    /\ last.op = "reset_agent"
    /\ nframes = 2
    /\ Len(protocol_items) = 1
    /\ id_counter = 2
    /\ action_progress = FINISHED
    /\ conversation_memory = <<>>
    /\ frame_buffer = <<>>

(* ------------------------------------------------------------------ *)
(* C26                                                                  *)
(* ------------------------------------------------------------------ *)

\* Both requests in flight got a finished reply.
BothFinished == \A i \in Requests : IsFinishedReply(req[i].reply)

\* C26: once two requests in flight that each handled a finished reply
\* have responded, the entries of the ledger carry pairwise distinct ids
\* and the id counter is the number of entries plus one.
C26_ConcurrentIdsUnique ==
    (AllDone /\ BothFinished)
      => /\ \A m, n \in 1..Len(protocol_items) :
               m # n => protocol_items[m].id # protocol_items[n].id
         /\ id_counter = Len(protocol_items) + 1

(* ------------------------------------------------------------------ *)
(* C27                                                                  *)
(* ------------------------------------------------------------------ *)

\* C27: whatever the interleaving of the requests in flight, the
\* maintenance of the frame buffer makes no request fail: the oldest
\* frame is never popped from an empty buffer; and once the requests have
\* responded the buffer holds at most MAX_BUFFER_FRAMES frames.
C27_BufferMaintenanceNeverFails ==
    /\ \A i \in Requests : req[i].exc = "none"
    /\ AllDone => Len(frame_buffer) <= MAX_BUFFER_FRAMES

====
